---- MODULE Spec2Model ----
(***************************************************************************)
(* Cockermouth Running Shop dashboard                                      *)
(* (src/cockermouth_running_shop_streamlit_dashboard_app.py).              *)
(*                                                                         *)
(* The script is re-executed from its first line on every interaction:     *)
(* it rebuilds `defaults` and `presets`, reads the preset radio and the    *)
(* 25 sidebar widgets, derives the revenue / gross profit / P&L figures,   *)
(* the blended margin and breakeven sales (np.nan when undefined), the     *)
(* seasonal profile, and renders the caption and the metrics table.        *)
(*                                                                         *)
(* Numbers.  The script computes in Python floats.  The model computes the *)
(* same expressions in exact arithmetic on arbitrary-size numbers          *)
(*     value = (-1)^neg * n / (10^e * q)                                   *)
(* with n and q naturals held as little-endian sequences of base-10^4      *)
(* limbs, plus the not-a-number value np.nan.  Rounding error of the       *)
(* binary floating-point format is not modelled.                           *)
(***************************************************************************)
EXTENDS Integers, Sequences, FiniteSets, TLC

(***************************************************************************)
(* Naturals of arbitrary size: <<l1, ..., lk>> is l1 + l2*B + ... with     *)
(* B = 10^4, lk # 0; zero is << >>.                                        *)
(***************************************************************************)
LimbBase == 10^4

Limb(a, i) == IF i <= Len(a) THEN a[i] ELSE 0

RECURSIVE BStrip(_)
BStrip(a) ==
  IF a = << >> THEN << >>
  ELSE IF a[Len(a)] = 0 THEN BStrip(SubSeq(a, 1, Len(a) - 1)) ELSE a

RECURSIVE BFromNat(_)
BFromNat(k) ==
  IF k = 0 THEN << >> ELSE <<k % LimbBase>> \o BFromNat(k \div LimbBase)

RECURSIVE BAddC(_, _, _, _)
BAddC(a, b, i, c) ==
  IF i > Len(a) /\ i > Len(b)
  THEN (IF c = 0 THEN << >> ELSE <<c>>)
  ELSE LET s == Limb(a, i) + Limb(b, i) + c
       IN  <<s % LimbBase>> \o BAddC(a, b, i + 1, s \div LimbBase)

BAdd(a, b) == BAddC(a, b, 1, 0)

\* a - b for a >= b
RECURSIVE BSubC(_, _, _, _)
BSubC(a, b, i, c) ==
  IF i > Len(a) THEN << >>
  ELSE LET s == a[i] - Limb(b, i) - c
       IN  IF s < 0 THEN <<s + LimbBase>> \o BSubC(a, b, i + 1, 1)
                    ELSE <<s>> \o BSubC(a, b, i + 1, 0)

BSub(a, b) == BStrip(BSubC(a, b, 1, 0))

\* a * m for a limb-sized m
RECURSIVE BMulLimbC(_, _, _, _)
BMulLimbC(a, m, i, c) ==
  IF i > Len(a) THEN (IF c = 0 THEN << >> ELSE <<c>>)
  ELSE LET s == a[i] * m + c
       IN  <<s % LimbBase>> \o BMulLimbC(a, m, i + 1, s \div LimbBase)

BMulLimb(a, m) == IF m = 0 THEN << >> ELSE BMulLimbC(a, m, 1, 0)

BShift(a, k) == IF a = << >> THEN << >> ELSE [i \in 1..k |-> 0] \o a

RECURSIVE BMulC(_, _, _)
BMulC(a, b, j) ==
  IF j > Len(b) THEN << >>
  ELSE BAdd(BShift(BMulLimb(a, b[j]), j - 1), BMulC(a, b, j + 1))

BMul(a, b) ==
  IF a = << >> \/ b = << >> THEN << >>
  ELSE IF b = <<1>> THEN a
  ELSE IF a = <<1>> THEN b
  ELSE IF Len(b) = 1 THEN BMulLimbC(a, b[1], 1, 0)
  ELSE IF Len(a) = 1 THEN BMulLimbC(b, a[1], 1, 0)
  ELSE IF Len(b) <= Len(a) THEN BMulC(a, b, 1) ELSE BMulC(b, a, 1)

\* -1, 0, 1 as a < b, a = b, a > b
RECURSIVE BCmpAt(_, _, _)
BCmpAt(a, b, i) ==
  IF i = 0 THEN 0
  ELSE IF a[i] < b[i] THEN -1
  ELSE IF a[i] > b[i] THEN 1
  ELSE BCmpAt(a, b, i - 1)

BCmp(a, b) ==
  IF Len(a) < Len(b) THEN -1
  ELSE IF Len(a) > Len(b) THEN 1
  ELSE BCmpAt(a, b, Len(a))

BOne == <<1>>

BPow10(e) == [i \in 1..(e \div 4) |-> 0] \o <<10^(e % 4)>>

(***************************************************************************)
(* Numbers: value = (-1)^neg * n / (10^e * q); nan marks np.nan.           *)
(***************************************************************************)
Mk(neg, n, e, q) ==
  [nan |-> FALSE, neg |-> (neg /\ n # << >>), n |-> n, e |-> e, q |-> q]

NaN == [nan |-> TRUE, neg |-> FALSE, n |-> << >>, e |-> 0, q |-> BOne]

\* the decimal k * 10^-e, k a machine integer
Dec(k, e) == Mk(k < 0, BFromNat(IF k < 0 THEN -k ELSE k), e, BOne)

Whole(k) == Dec(k, 0)

IsZero(x) == ~x.nan /\ x.n = << >>

Max2(i, j) == IF i >= j THEN i ELSE j

\* numerator of x over the denominator 10^E * x.q * other.q (x.q when both agree)
Lift(x, E, oq, same) ==
  LET s == IF E = x.e THEN x.n ELSE BMul(x.n, BPow10(E - x.e))
  IN  IF same THEN s ELSE BMul(s, oq)

\* -1, 0, 1 as x < y, x = y, x > y  (neither is nan)
NCmp(x, y) ==
  LET E    == Max2(x.e, y.e)
      same == x.q = y.q
      a    == Lift(x, E, y.q, same)
      b    == Lift(y, E, x.q, same)
  IN  IF x.neg /\ ~y.neg THEN (IF a = << >> /\ b = << >> THEN 0 ELSE -1)
      ELSE IF ~x.neg /\ y.neg THEN (IF a = << >> /\ b = << >> THEN 0 ELSE 1)
      ELSE IF x.neg THEN BCmp(b, a)
      ELSE BCmp(a, b)

NEq(x, y) == ~x.nan /\ ~y.nan /\ NCmp(x, y) = 0
NLt(x, y) == ~x.nan /\ ~y.nan /\ NCmp(x, y) < 0
NLe(x, y) == ~x.nan /\ ~y.nan /\ NCmp(x, y) <= 0

NNeg(x) == IF x.nan THEN NaN ELSE Mk(~x.neg, x.n, x.e, x.q)

NAdd(x, y) ==
  IF x.nan \/ y.nan THEN NaN
  ELSE LET E    == Max2(x.e, y.e)
           same == x.q = y.q
           a    == Lift(x, E, y.q, same)
           b    == Lift(y, E, x.q, same)
           q    == IF same THEN x.q ELSE BMul(x.q, y.q)
       IN  IF x.neg = y.neg THEN Mk(x.neg, BAdd(a, b), E, q)
           ELSE IF BCmp(a, b) >= 0 THEN Mk(x.neg, BSub(a, b), E, q)
           ELSE Mk(y.neg, BSub(b, a), E, q)

NSub(x, y) == NAdd(x, NNeg(y))

NMul(x, y) ==
  IF x.nan \/ y.nan THEN NaN
  ELSE Mk(x.neg # y.neg, BMul(x.n, y.n), x.e + y.e, BMul(x.q, y.q))

\* x / y for y # 0
NDiv(x, y) ==
  IF x.nan \/ y.nan THEN NaN
  ELSE Mk(x.neg # y.neg,
          BMul(BMul(x.n, y.q), BPow10(IF y.e > x.e THEN y.e - x.e ELSE 0)),
          IF x.e > y.e THEN x.e - y.e ELSE 0,
          BMul(x.q, y.n))

\* floor(a / b) and a mod b for b # 0, by long division from the top limb.
\* The quotient digit d (b*d <= cur < b*(d+1)) lies between the quotients of
\* the leading limbs taken low and high; a bisection finds it in between.
Top2(a, k) == Limb(a, k) * LimbBase + Limb(a, k - 1)

Min2(i, j) == IF i <= j THEN i ELSE j

RECURSIVE BDigit(_, _, _, _)
BDigit(b, rem, lo, hi) ==
  IF lo >= hi THEN lo
  ELSE LET mid == (lo + hi + 1) \div 2
       IN  IF BCmp(BMulLimb(b, mid), rem) <= 0
           THEN BDigit(b, rem, mid, hi)
           ELSE BDigit(b, rem, lo, mid - 1)

RECURSIVE BDivAt(_, _, _, _)
BDivAt(a, b, i, rem) ==
  IF i = 0 THEN << << >>, rem >>
  ELSE LET cur  == BStrip(<<a[i]>> \o rem)
           k    == Len(b) + 1
           top  == Top2(cur, k)
           lo   == top \div (b[Len(b)] + 1)
           hi   == Min2(LimbBase - 1, (top + 1) \div b[Len(b)])
           d    == IF BCmp(cur, b) < 0 THEN 0 ELSE BDigit(b, cur, lo, hi)
           rest == BDivAt(a, b, i - 1, BSub(cur, BMulLimb(b, d)))
       IN  << rest[1] \o <<d>>, rest[2] >>

BDivMod(a, b) ==
  LET r == BDivAt(a, b, Len(a), << >>) IN << BStrip(r[1]), r[2] >>

\* |x| rounded to the nearest integer, ties to even (what "{:.0f}" prints)
RoundHalfEven(x) ==
  LET dm   == BDivMod(x.n, BMul(BPow10(x.e), x.q))
      k    == dm[1]
      twoR == BAdd(dm[2], dm[2])
      c    == BCmp(twoR, BMul(BPow10(x.e), x.q))
      odd  == k # << >> /\ k[1] % 2 = 1
  IN  IF c > 0 \/ (c = 0 /\ odd) THEN BAdd(k, BOne) ELSE k

(***************************************************************************)
(* Helpers                                                                 *)
(***************************************************************************)
\* Rendered text.  [kind |-> "em-dash"] is the one-character string U+2014;
\* [kind |-> "gbp", ...] is the pound sign followed by `body`, or by the
\* thousands-grouped digits of `pounds`; [kind |-> "pct", ...] is `body`, or
\* the digits of `tenths` with one decimal place, followed by "%".
EmDash == [kind |-> "em-dash"]

\* fmt_gbp: the pound sign and "{x:,.0f}" in a try block, the em-dash when
\* formatting raises.  Formatting a float never raises: nan prints as "nan".
fmt_gbp(x) ==
  IF x.nan THEN [kind |-> "gbp", body |-> "nan"]
  ELSE [kind |-> "gbp", neg |-> x.neg, pounds |-> RoundHalfEven(x)]

\* f"{x*100:.1f}%"
fmt_pct(x) ==
  LET y == NMul(x, Whole(100))
  IN  IF y.nan THEN [kind |-> "pct", body |-> "nan"]
      ELSE [kind |-> "pct", neg |-> y.neg,
            tenths |-> RoundHalfEven(NMul(y, Whole(10)))]

(***************************************************************************)
(* Defaults and presets                                                    *)
(***************************************************************************)
Fields ==
  {"pop", "adult_share", "run_share", "pairs_per_runner", "capture_local",
   "asp_shoes", "attach_apparel", "tourist_footfall", "tourist_conv",
   "tourist_aov", "num_events", "event_sales", "service_units",
   "service_price", "gm_shoes", "gm_apparel", "gm_tour", "rent", "staff",
   "utilities", "marketing", "misc", "other", "summer_uplift",
   "shoulder_uplift"}

DefaultsLiteral ==
  [pop              |-> Whole(8860),
   adult_share      |-> Dec(8, 1),
   run_share        |-> Dec(3, 1),
   pairs_per_runner |-> Dec(7, 1),
   capture_local    |-> Dec(4, 1),
   asp_shoes        |-> Whole(130),
   attach_apparel   |-> Dec(4, 1),
   tourist_footfall |-> Whole(8000),
   tourist_conv     |-> Dec(2, 2),
   tourist_aov      |-> Whole(125),
   num_events       |-> Whole(2),
   event_sales      |-> Whole(6000),
   service_units    |-> Whole(400),
   service_price    |-> Whole(10),
   gm_shoes         |-> Dec(43, 2),
   gm_apparel       |-> Dec(52, 2),
   gm_tour          |-> Dec(45, 2),
   rent             |-> Whole(29000),
   staff            |-> Whole(15000),
   utilities        |-> Whole(7000),
   marketing        |-> Whole(8000),
   misc             |-> Whole(5000),
   other            |-> Whole(0),
   summer_uplift    |-> Dec(25, 2),
   shoulder_uplift  |-> Dec(1, 1)]

ConservativeOverrides ==
  [capture_local    |-> Dec(3, 1),
   tourist_footfall |-> Whole(6000),
   tourist_conv     |-> Dec(15, 3),
   num_events       |-> Whole(1),
   event_sales      |-> Whole(5000),
   staff            |-> Whole(12000),
   marketing        |-> Whole(6000)]

StretchOverrides ==
  [capture_local    |-> Dec(55, 2),
   tourist_footfall |-> Whole(10000),
   tourist_conv     |-> Dec(25, 3),
   num_events       |-> Whole(3),
   event_sales      |-> Whole(8000),
   staff            |-> Whole(20000),
   marketing        |-> Whole(10000)]

\* {**o, **d}: the defaults written over the overrides
MergeDefaultsWin(d, o) ==
  [f \in DOMAIN d \cup DOMAIN o |-> IF f \in DOMAIN d THEN d[f] ELSE o[f]]

\* {**d, **o}: a new dict, d with the entries of o written over it
Merge(d, o) ==
  [f \in DOMAIN d \cup DOMAIN o |-> IF f \in DOMAIN o THEN o[f] ELSE d[f]]

PresetNames == <<"Conservative", "Base", "Stretch">>

BuildPresets(d) ==
  [Conservative |-> Merge(d, ConservativeOverrides),
   Base         |-> d,
   Stretch      |-> Merge(d, StretchOverrides)]

(***************************************************************************)
(* Sidebar widgets: every slider has a lower and an upper bound, every     *)
(* number_input a min_value and no max_value.                              *)
(***************************************************************************)
WidgetMin ==
  [pop              |-> Whole(1000),
   adult_share      |-> Dec(5, 1),
   run_share        |-> Dec(5, 2),
   pairs_per_runner |-> Dec(2, 1),
   capture_local    |-> Dec(5, 2),
   asp_shoes        |-> Whole(40),
   attach_apparel   |-> Whole(0),
   tourist_footfall |-> Whole(0),
   tourist_conv     |-> Whole(0),
   tourist_aov      |-> Whole(10),
   num_events       |-> Whole(0),
   event_sales      |-> Whole(0),
   service_units    |-> Whole(0),
   service_price    |-> Whole(0),
   gm_shoes         |-> Dec(2, 1),
   gm_apparel       |-> Dec(3, 1),
   gm_tour          |-> Dec(2, 1),
   rent             |-> Whole(0),
   staff            |-> Whole(0),
   utilities        |-> Whole(0),
   marketing        |-> Whole(0),
   misc             |-> Whole(0),
   other            |-> Whole(0),
   summer_uplift    |-> Whole(0),
   shoulder_uplift  |-> Whole(0)]

SliderMax ==
  [adult_share      |-> Dec(95, 2),
   run_share        |-> Dec(6, 1),
   pairs_per_runner |-> Whole(2),
   capture_local    |-> Dec(9, 1),
   attach_apparel   |-> Whole(1),
   tourist_conv     |-> Dec(1, 1),
   gm_shoes         |-> Dec(6, 1),
   gm_apparel       |-> Dec(7, 1),
   gm_tour          |-> Dec(6, 1),
   summer_uplift    |-> Dec(75, 2),
   shoulder_uplift  |-> Dec(5, 1)]

\* the population input without its min_value
LowerBoundNoPopMin(f) == IF f = "pop" THEN Whole(0) ELSE WidgetMin[f]

\* min_value of a number_input, lower end of a slider
LowerBound(f) == WidgetMin[f]

\* the largest entry typed into a number_input
MaxInput == 50000

\* the widgets under each sidebar subheader
WidgetGroups ==
  [local    |-> {"pop", "adult_share", "run_share", "pairs_per_runner",
                 "capture_local", "asp_shoes", "attach_apparel"},
   tourism  |-> {"tourist_footfall", "tourist_conv", "tourist_aov",
                 "num_events", "event_sales"},
   services |-> {"service_units", "service_price"},
   margins  |-> {"gm_shoes", "gm_apparel", "gm_tour"},
   costs    |-> {"rent", "staff", "utilities", "marketing", "misc", "other"},
   season   |-> {"summer_uplift", "shoulder_uplift"}]

Settings == {"default", "min", "max"}

\* what widget f returns when left at its default (value=p[f]), dragged to
\* its lower end or to its upper end
WidgetValue(f, setting, preset) ==
  CASE setting = "default" -> preset[f]
    [] setting = "min"     -> LowerBound(f)
    [] setting = "max"     -> IF f \in DOMAIN SliderMax THEN SliderMax[f]
                              ELSE Whole(MaxInput)

(***************************************************************************)
(* Core calculations, seasonality and the rendered margin / breakeven      *)
(***************************************************************************)
Truthy(v) == v.nan \/ v.n # << >>

\* a stream's gross profit written as its revenue less its full price
GrossProfitLessRevenue(rev, gm) == NMul(rev, NSub(gm, Whole(1)))

\* rev * gm
GrossProfit(rev, gm) == NMul(rev, gm)

\* rev_tourist_core + rev_events * gm_tour, the parentheses left out
GpTourUnparenthesised(rev_tourist_core, rev_events, gm_tour) ==
  NAdd(rev_tourist_core, NMul(rev_events, gm_tour))

\* (rev_tourist_core + rev_events) * gm_tour
GpTour(rev_tourist_core, rev_events, gm_tour) ==
  NMul(NAdd(rev_tourist_core, rev_events), gm_tour)

\* the sum with misc left out
OpexWithoutMisc(a) ==
  NAdd(NAdd(NAdd(NAdd(a.rent, a.staff), a.utilities), a.marketing), a.other)

\* rent + staff + utilities + marketing + misc + other
Opex(a) ==
  NAdd(NAdd(NAdd(NAdd(NAdd(a.rent, a.staff), a.utilities), a.marketing),
            a.misc), a.other)

\* zero instead of np.nan when there is no turnover
GpPctZeroWhenNoTurnover(gp_total, turnover) ==
  IF NLt(Whole(0), turnover) THEN NDiv(gp_total, turnover) ELSE Whole(0)

GpPct(gp_total, turnover) ==
  IF NLt(Whole(0), turnover) THEN NDiv(gp_total, turnover) ELSE NaN

\* the condition (gp_pct and gp_pct > 0)
BeSalesGuard(gp_pct) == Truthy(gp_pct) /\ NLt(Whole(0), gp_pct)

\* opex * gp_pct
BeSalesTimesMargin(opex, gp_pct) == NMul(opex, gp_pct)

\* opex / gp_pct
BeSales(opex, gp_pct) == NDiv(opex, gp_pct)

\* a slice that takes its end index too
SliceInclusive(a, b) == a .. b

\* indices a, ..., b-1 of a slice a:b
Slice(a, b) == a .. (b - 1)

MayIdx == 4
SepIdx == 8
SummerFrom == 5
SummerTo == 8

RECURSIVE SumTo(_, _)
SumTo(v, k) == IF k < 0 THEN Whole(0) ELSE NAdd(SumTo(v, k - 1), v[k])

\* upl divided by the sum of the unweighted base vector
SharesOfBase(upl) ==
  LET total == SumTo([i \in 0..11 |-> Whole(1)], 11)
  IN  [i \in 0..11 |-> NDiv(upl[i], total)]

\* upl / upl.sum()
Shares(upl) ==
  LET total == SumTo(upl, 11)
  IN  [i \in 0..11 |-> NDiv(upl[i], total)]

\* name = value in the script's namespace
Assign(e, name, value) ==
  [k \in DOMAIN e \cup {name} |-> IF k = name THEN value ELSE e[k]]

\* v[idx] *= m
ScaleAt(v, idx, m) == [i \in DOMAIN v |-> IF i \in idx THEN NMul(v[i], m) ELSE v[i]]

\* The statement at line n of the script, run in namespace e.  The widgets'
\* return values are in e under the script's own names.
Line(e, n) ==
  CASE n = 122 -> Assign(e, "adults", NMul(e.pop, e.adult_share))
    [] n = 123 -> Assign(e, "runners", NMul(e.adults, e.run_share))
    [] n = 124 -> Assign(e, "local_pairs", NMul(e.runners, e.pairs_per_runner))
    [] n = 125 -> Assign(e, "local_pairs_captured",
                         NMul(e.local_pairs, e.capture_local))
    [] n = 126 -> Assign(e, "rev_local_shoes",
                         NMul(e.local_pairs_captured, e.asp_shoes))
    [] n = 127 -> Assign(e, "rev_local_apparel",
                         NMul(e.rev_local_shoes, e.attach_apparel))
    [] n = 128 -> Assign(e, "rev_tourist_core",
                         NMul(NMul(e.tourist_footfall, e.tourist_conv),
                              e.tourist_aov))
    [] n = 129 -> Assign(e, "rev_events", NMul(e.num_events, e.event_sales))
    [] n = 130 -> Assign(e, "rev_services",
                         NMul(e.service_units, e.service_price))
    [] n = 132 -> Assign(e, "turnover",
                         NAdd(NAdd(NAdd(NAdd(e.rev_local_shoes,
                                             e.rev_local_apparel),
                                        e.rev_tourist_core),
                                   e.rev_events),
                              e.rev_services))
    [] n = 135 -> Assign(e, "gp_shoes", GrossProfit(e.rev_local_shoes, e.gm_shoes))
    [] n = 136 -> Assign(e, "gp_apparel",
                         GrossProfit(e.rev_local_apparel, e.gm_apparel))
    [] n = 137 -> Assign(e, "gp_tour",
                         GpTour(e.rev_tourist_core, e.rev_events, e.gm_tour))
    [] n = 138 -> Assign(e, "gp_services", e.rev_services)
    [] n = 140 -> Assign(e, "gp_total",
                         NAdd(NAdd(NAdd(e.gp_shoes, e.gp_apparel), e.gp_tour),
                              e.gp_services))
    [] n = 143 -> Assign(e, "opex", Opex(e))
    [] n = 144 -> Assign(e, "op", NSub(e.gp_total, e.opex))
    [] n = 148 -> Assign(e, "gp_pct", GpPct(e.gp_total, e.turnover))
    \* opex / gp_pct raises ZeroDivisionError for gp_pct = 0 and ends the run
    [] n = 152 -> IF ~BeSalesGuard(e.gp_pct) THEN Assign(e, "be_sales", NaN)
                  ELSE IF IsZero(e.gp_pct)
                       THEN Assign(e, "raised", "ZeroDivisionError")
                       ELSE Assign(e, "be_sales", BeSales(e.opex, e.gp_pct))
    \* st.caption: the margin, and the breakeven or the em-dash
    [] n = 161 -> Assign(Assign(e, "caption_gp_pct", fmt_pct(e.gp_pct)),
                         "caption_be_sales",
                         IF ~e.be_sales.nan THEN fmt_gbp(e.be_sales) ELSE EmDash)
    [] n = 180 -> Assign(e, "base", [i \in 0..11 |-> Whole(1)])
    [] n = 181 -> Assign(e, "upl", e.base)
    [] n = 182 -> Assign(e, "upl",
                         ScaleAt(e.upl, {MayIdx, SepIdx},
                                 NAdd(Whole(1), e.shoulder_uplift)))
    [] n = 183 -> Assign(e, "upl",
                         ScaleAt(e.upl, Slice(SummerFrom, SummerTo),
                                 NAdd(Whole(1), e.summer_uplift)))
    [] n = 184 -> Assign(e, "shares", Shares(e.upl))
    \* season_df["Turnover"]
    [] n = 186 -> Assign(e, "season_turnover",
                         [i \in 0..11 |-> NMul(e.shares[i], e.turnover)])
    \* summary rows "Blended GP%" and "Breakeven sales"
    [] n = 212 -> Assign(e, "row_gp_pct",
                         IF ~e.gp_pct.nan THEN fmt_pct(e.gp_pct) ELSE EmDash)
    [] n = 213 -> Assign(e, "row_be_sales",
                         IF ~e.be_sales.nan THEN fmt_gbp(e.be_sales) ELSE EmDash)

Lines ==
  <<122, 123, 124, 125, 126, 127, 128, 129, 130, 132, 135, 136, 137, 138,
    140, 143, 144, 148, 152, 161, 180, 181, 182, 183, 184, 186, 212, 213>>

\* the statements from the k-th on, until one raises
RECURSIVE Exec(_, _)
Exec(e, k) ==
  IF k > Len(Lines) \/ e.raised # "none" THEN e
  ELSE Exec(Line(e, Lines[k]), k + 1)

\* the script body from the core calculations on, given what the widgets returned
Compute(a) == Exec(Assign(a, "raised", "none"), 1)

(***************************************************************************)
(* The running app: one script run per interaction                         *)
(***************************************************************************)
VARIABLES
  defaults,     \* the dict `defaults`
  presets,      \* the dict `presets`
  preset_name,  \* the preset radio
  p,            \* presets[preset_name]
  inputs,       \* pop, adult_share, ..., shoulder_uplift as the widgets return them
  r             \* everything the run derives and renders from them

vars == <<defaults, presets, preset_name, p, inputs, r>>

\* one execution of the script with the radio at `name` and the widgets
\* returning `values`
Run(name, values) ==
  /\ defaults' = DefaultsLiteral
  /\ presets' = BuildPresets(defaults')
  /\ preset_name' = name
  /\ p' = presets'[name]
  /\ inputs' = values
  /\ r' = Compute(values)

\* first run: radio index=1, every widget at the value= of its preset
Init ==
  /\ defaults = DefaultsLiteral
  /\ presets = BuildPresets(defaults)
  /\ preset_name = PresetNames[2]
  /\ p = presets[preset_name]
  /\ inputs = p
  /\ r = Compute(inputs)

\* The radio moves to another preset.  A widget whose value= argument changes
\* with the preset shows the new default; the others keep what they hold.
SelectPreset(name) ==
  /\ name # preset_name
  /\ LET q == BuildPresets(DefaultsLiteral)[name]
     IN  Run(name, [f \in Fields |-> IF q[f] # p[f] THEN q[f] ELSE inputs[f]])

\* the groups holding a widget that is off its preset default
EditedGroups(values, preset) ==
  {g \in DOMAIN WidgetGroups : \E f \in WidgetGroups[g] : values[f] # preset[f]}

\* at most this many groups are off their defaults at once
MaxEdited == 2

\* The widgets of one group are moved; the script reruns.
EditWidgets(g, setting) ==
  LET values == [f \in Fields |-> IF f \in WidgetGroups[g]
                                  THEN WidgetValue(f, setting, p) ELSE inputs[f]]
  IN  /\ values # inputs
      /\ Cardinality(EditedGroups(values, p)) <= MaxEdited
      /\ Run(preset_name, values)

Next ==
  \/ \E i \in DOMAIN PresetNames : SelectPreset(PresetNames[i])
  \/ \E g \in DOMAIN WidgetGroups, s \in Settings : EditWidgets(g, s)

Spec == Init /\ [][Next]_vars

(***************************************************************************)
(* The calculation on its own (core calculations through the summary       *)
(* table), applied to assumption records that need not come from the       *)
(* widgets: any non-negative value, zero included.                         *)
(***************************************************************************)
Pending == [raised |-> "not run"]

Computed == r # Pending

CoreSettings ==
  [local    |-> {"zero", "min", "default", "max"},
   tourism  |-> {"zero", "min", "default", "max"},
   services |-> {"zero", "default", "max"},
   margins  |-> {"zero", "min", "default", "max"},
   costs    |-> {"zero", "default", "max"},
   season   |-> {"min", "default", "max"}]

SeasonMixes == {"both", "summer only", "shoulder only"}

CoreValue(f, setting) ==
  IF setting = "zero" THEN Whole(0) ELSE WidgetValue(f, setting, DefaultsLiteral)

GroupOf(f) == CHOOSE g \in DOMAIN WidgetGroups : f \in WidgetGroups[g]

CoreInputs ==
  { [f \in Fields |->
       IF \/ (f = "summer_uplift" /\ mix = "shoulder only")
          \/ (f = "shoulder_uplift" /\ mix = "summer only")
       THEN Whole(0)
       ELSE CoreValue(f, c[GroupOf(f)])] :
    c \in [DOMAIN WidgetGroups -> {"zero", "min", "default", "max"}]
            \cap {c \in [DOMAIN WidgetGroups -> {"zero", "min", "default", "max"}] :
                    \A g \in DOMAIN WidgetGroups : c[g] \in CoreSettings[g]},
    mix \in SeasonMixes }

CoreInit ==
  /\ defaults = DefaultsLiteral
  /\ presets = BuildPresets(defaults)
  /\ preset_name = PresetNames[2]
  /\ p = presets[preset_name]
  /\ inputs \in CoreInputs
  /\ r = Pending

CoreCompute ==
  /\ r = Pending
  /\ r' = Compute(inputs)
  /\ UNCHANGED <<defaults, presets, preset_name, p, inputs>>

CoreNext == CoreCompute

SpecCore == CoreInit /\ [][CoreNext]_vars

(***************************************************************************)
(* One script run for each combination the sidebar admits: any preset on   *)
(* the radio, every group of widgets at its defaults or at either end of   *)
(* its ranges.                                                             *)
(***************************************************************************)
BoundaryInit ==
  /\ defaults = DefaultsLiteral
  /\ presets = BuildPresets(defaults)
  /\ preset_name \in {PresetNames[i] : i \in DOMAIN PresetNames}
  /\ p = presets[preset_name]
  /\ \E c \in [DOMAIN WidgetGroups -> Settings] :
        inputs = [f \in Fields |-> WidgetValue(f, c[GroupOf(f)], p)]
  /\ r = Pending

SpecBoundary == BoundaryInit /\ [][CoreNext]_vars
(***************************************************************************)
(* Properties                                                              *)
(***************************************************************************)
Zero == Whole(0)

NonNeg(v) == NLe(Zero, v)

DemandFields ==
  WidgetGroups["local"] \cup WidgetGroups["tourism"] \cup WidgetGroups["services"]

AllDemandZero == \A f \in DemandFields : IsZero(inputs[f])

\* C1: the blended margin is np.nan exactly when turnover is not > 0 and is
\* gp_total / turnover otherwise; breakeven sales is np.nan exactly when the
\* margin is np.nan or <= 0 and is opex / gp_pct otherwise; with every demand,
\* tourist, event and service input at 0, turnover is 0 and both are np.nan
\* (not zero); no run raises.
C1_SentinelRules ==
  Computed =>
    /\ r.raised = "none"
    /\ r.gp_pct.nan <=> ~NLt(Zero, r.turnover)
    /\ ~r.gp_pct.nan => NEq(NMul(r.gp_pct, r.turnover), r.gp_total)
    /\ r.be_sales.nan <=> (r.gp_pct.nan \/ NLe(r.gp_pct, Zero))
    /\ ~r.be_sales.nan => NEq(NMul(r.be_sales, r.gp_pct), r.opex)
    /\ AllDemandZero =>
         /\ IsZero(r.turnover)
         /\ r.gp_pct.nan /\ ~IsZero(r.gp_pct)
         /\ r.be_sales.nan /\ ~IsZero(r.be_sales)

C1_Witness ==
  /\ Computed
  /\ AllDemandZero
  /\ ~IsZero(inputs.rent)
  /\ r.gp_pct.nan
  /\ r.be_sales.nan
  /\ r.raised = "none"

\* C2: turnover is the sum of the five revenue streams; gp_total is the sum
\* of the four gross-profit components, gp_tour being the one tourist margin
\* applied to rev_tourist_core + rev_events and gp_services being
\* rev_services; opex is the sum of the six cost inputs and the operating
\* profit is gp_total - opex.
C2_AccountingIdentities ==
  Computed =>
    /\ NEq(r.turnover,
           NAdd(r.rev_local_shoes,
                NAdd(r.rev_local_apparel,
                     NAdd(r.rev_tourist_core,
                          NAdd(r.rev_events, r.rev_services)))))
    /\ NEq(r.gp_total,
           NAdd(r.gp_shoes, NAdd(r.gp_apparel, NAdd(r.gp_tour, r.gp_services))))
    /\ NEq(r.gp_tour,
           NAdd(NMul(r.rev_tourist_core, inputs.gm_tour),
                NMul(r.rev_events, inputs.gm_tour)))
    /\ NEq(r.gp_services, r.rev_services)
    /\ NEq(r.opex,
           NAdd(inputs.other,
                NAdd(inputs.misc,
                     NAdd(inputs.marketing,
                          NAdd(inputs.utilities, NAdd(inputs.staff, inputs.rent))))))
    /\ NEq(NAdd(r.op, r.opex), r.gp_total)

C2_Witness ==
  /\ Computed
  /\ \A k \in {"rev_local_shoes", "rev_local_apparel", "rev_tourist_core",
               "rev_events", "rev_services", "opex"} : NLt(Zero, r[k])
  /\ NLt(r.gp_tour, NAdd(r.rev_tourist_core, r.rev_events))
  /\ NLt(r.op, Zero)

\* C3: the twelve monthly shares sum to 1 and the twelve monthly turnover
\* values sum to the annual turnover, for every pair of uplifts.
C3_SharesSumToOne ==
  Computed =>
    /\ NEq(SumTo(r.shares, 11), Whole(1))
    /\ NEq(SumTo(r.season_turnover, 11), r.turnover)

C3_Witness ==
  /\ Computed
  /\ NLt(Zero, inputs.summer_uplift)
  /\ NLt(Zero, inputs.shoulder_uplift)
  /\ NLt(Zero, r.turnover)
  /\ NEq(SumTo(r.season_turnover, 11), r.turnover)

Months ==
  <<"Jan", "Feb", "Mar", "Apr", "May", "Jun", "Jul", "Aug", "Sep", "Oct",
    "Nov", "Dec">>

\* indices (from 0) of the named months
IdxOf(names) == {i \in 0..11 : Months[i + 1] \in names}

ShoulderMonths == IdxOf({"May", "Sep"})
SummerMonths == IdxOf({"Jun", "Jul", "Aug"})
PlainMonths == (0..11) \ (ShoulderMonths \cup SummerMonths)

\* C4: before normalisation exactly May and September weigh
\* 1 + shoulder_uplift, exactly June, July and August weigh 1 + summer_uplift
\* and the other seven months weigh 1; with both uplifts 0 every month gets
\* turnover / 12; the seven plain months always get the same turnover, never
\* more than an uplifted month.
C4_SeasonalWeights ==
  Computed =>
    /\ \A i \in ShoulderMonths :
         NEq(r.upl[i], NAdd(Whole(1), inputs.shoulder_uplift))
    /\ \A i \in SummerMonths :
         NEq(r.upl[i], NAdd(Whole(1), inputs.summer_uplift))
    /\ \A i \in PlainMonths : NEq(r.upl[i], Whole(1))
    /\ (IsZero(inputs.summer_uplift) /\ IsZero(inputs.shoulder_uplift)) =>
         \A i \in 0..11 : NEq(NMul(r.season_turnover[i], Whole(12)), r.turnover)
    /\ \A i \in PlainMonths :
         /\ \A j \in PlainMonths : NEq(r.season_turnover[i], r.season_turnover[j])
         /\ \A j \in (0..11) \ PlainMonths :
              NLe(r.season_turnover[i], r.season_turnover[j])

C4_Witness ==
  /\ Computed
  /\ NLt(Zero, r.turnover)
  /\ NLt(Zero, inputs.shoulder_uplift)
  /\ NLt(inputs.shoulder_uplift, inputs.summer_uplift)
  /\ NLt(r.season_turnover[0], r.season_turnover[4])
  /\ NLt(r.season_turnover[8], r.season_turnover[7])
  /\ NEq(r.season_turnover[3], r.season_turnover[9])

\* the uniform case of C4
C4_WitnessUniform ==
  /\ Computed
  /\ NLt(Zero, r.turnover)
  /\ IsZero(inputs.summer_uplift) /\ IsZero(inputs.shoulder_uplift)
  /\ NEq(NMul(r.season_turnover[6], Whole(12)), r.turnover)

PresetOnlyFields ==
  {"capture_local", "tourist_footfall", "tourist_conv", "num_events",
   "event_sales", "staff", "marketing"}

\* C5: whatever was selected before, the record the radio yields is the
\* selected preset's fixed record: Base is the default record; Conservative
\* and Stretch are the default record except for capture rate, tourist
\* footfall, tourist conversion, event count, event sales, staff and
\* marketing, where each has its own values; no override of one preset shows
\* in another; defaults and presets are the same in every state.
C5_PresetIsolation ==
  /\ defaults = DefaultsLiteral
  /\ p = presets[preset_name]
  /\ presets["Base"] = DefaultsLiteral
  /\ \A n \in {"Conservative", "Stretch"} :
       \A f \in Fields \ PresetOnlyFields : presets[n][f] = DefaultsLiteral[f]
  /\ \A f \in PresetOnlyFields :
       /\ presets["Conservative"][f] = ConservativeOverrides[f]
       /\ presets["Stretch"][f] = StretchOverrides[f]
       /\ ~NEq(presets["Conservative"][f], presets["Stretch"][f])
       /\ ~NEq(presets["Conservative"][f], presets["Base"][f])
       /\ ~NEq(presets["Stretch"][f], presets["Base"][f])

C5_Witness ==
  /\ preset_name = "Stretch"
  /\ NEq(p.capture_local, Dec(55, 2))
  /\ NEq(inputs.capture_local, Dec(55, 2))
  /\ inputs.pop = WidgetMin.pop
  /\ NEq(presets["Conservative"].capture_local, Dec(30, 2))

C7_BaseExample ==
  (preset_name = "Base" /\ inputs = p) =>
    /\ NEq(inputs.pop, Whole(8860))
    /\ NEq(inputs.adult_share, Dec(80, 2))
    /\ NEq(inputs.run_share, Dec(30, 2))
    /\ NEq(inputs.pairs_per_runner, Dec(70, 2))
    /\ NEq(inputs.capture_local, Dec(40, 2))
    /\ NEq(inputs.asp_shoes, Whole(130))
    /\ NEq(inputs.attach_apparel, Dec(40, 2))
    /\ NEq(r.adults, Whole(7088))
    /\ NEq(r.runners, Dec(21264, 1))
    /\ NEq(r.local_pairs, Dec(148848, 2))
    /\ NEq(r.local_pairs_captured, Dec(595392, 3))
    /\ NEq(r.rev_local_shoes, Dec(7740096, 2))
    /\ NEq(r.rev_local_apparel, Dec(30960384, 3))
    /\ NEq(r.opex, Whole(64000))

C7_Witness ==
  /\ preset_name = "Base"
  /\ inputs = p
  /\ NEq(r.rev_local_apparel, Dec(30960384, 3))
  /\ NEq(r.opex, Whole(29000 + 15000 + 7000 + 8000 + 5000 + 0))

MoneyOutputs ==
  {"rev_local_shoes", "rev_local_apparel", "rev_tourist_core", "rev_events",
   "rev_services", "turnover", "gp_shoes", "gp_apparel", "gp_tour",
   "gp_services", "gp_total", "opex"}

\* C8: with non-negative inputs every monetary output other than the
\* operating profit is non-negative: the five revenue streams, turnover, the
\* four gross-profit components, gp_total, opex, breakeven sales when
\* defined and the twelve monthly turnover values.
C8_MoneyNonNegative ==
  Computed =>
    /\ \A k \in MoneyOutputs : NonNeg(r[k])
    /\ ~r.be_sales.nan => NonNeg(r.be_sales)
    /\ \A i \in 0..11 : NonNeg(r.season_turnover[i])
    /\ ~r.op.nan /\ r.raised = "none"

\* a loss is a result like any other
C8_Witness ==
  /\ Computed
  /\ NLt(r.op, Zero)
  /\ r.raised = "none"
  /\ NLt(Zero, r.gp_shoes)
  /\ NLt(Zero, r.be_sales)
  /\ \A i \in 0..11 : NLt(Zero, r.season_turnover[i])

\* C9: when breakeven sales is defined, breakeven_sales * gp_pct = opex, the
\* operating profit is >= 0 exactly when turnover >= breakeven_sales, and it
\* is 0 exactly when turnover = breakeven_sales.
C9_BreakevenCoversOpex ==
  (Computed /\ ~r.be_sales.nan) =>
    /\ NEq(NMul(r.be_sales, r.gp_pct), r.opex)
    /\ NLe(Zero, r.op) <=> NLe(r.be_sales, r.turnover)
    /\ IsZero(r.op) <=> NEq(r.turnover, r.be_sales)

C9_Witness ==
  /\ Computed
  /\ ~r.be_sales.nan
  /\ NLt(Zero, r.opex)
  /\ NLt(Zero, r.op)
  /\ NLt(r.be_sales, r.turnover)

\* the loss-making side of C9
C9_WitnessLoss ==
  /\ Computed
  /\ ~r.be_sales.nan
  /\ NLt(r.op, Zero)
  /\ NLt(r.turnover, r.be_sales)

\* the ranges the sidebar is said to admit
InStatedRanges ==
  /\ NLe(Whole(1000), inputs.pop)
  /\ NLe(Dec(50, 2), inputs.adult_share)
  /\ NLe(Dec(5, 2), inputs.run_share)
  /\ NLe(Dec(20, 2), inputs.pairs_per_runner)
  /\ NLe(Dec(5, 2), inputs.capture_local)
  /\ NLe(Whole(40), inputs.asp_shoes)
  /\ NLe(Dec(20, 2), inputs.gm_shoes) /\ NLe(inputs.gm_shoes, Dec(60, 2))
  /\ NLe(Dec(30, 2), inputs.gm_apparel) /\ NLe(inputs.gm_apparel, Dec(70, 2))
  /\ NLe(Dec(20, 2), inputs.gm_tour) /\ NLe(inputs.gm_tour, Dec(60, 2))
  /\ \A f \in Fields : NonNeg(inputs[f])

====
